---- MODULE Spec2Model ----
(***************************************************************************)
(* A model of the FastQC tool facade of OpenBioMCP                         *)
(* (src/modules/fastqc/fastqc.py): find_fastq_files, fastqc,               *)
(* install_fastqc and is_fastqc_installed, together with the part of the   *)
(* operating environment they read and change (the files on disk, the      *)
(* executables on the search path, the platform, the child processes).     *)
(*                                                                         *)
(* A path is a record [dir, name]; name is the basename cut into tokens    *)
(* ("reads_R1.fastq.gz" is <<"reads", "_R1", ".fastq", ".gz">>); dir ""    *)
(* is a relative path, resolved against the working directory.             *)
(* A Python call runs from one subprocess.run to the next in one step:     *)
(* the program blocks only while a child process runs.                     *)
(***************************************************************************)
EXTENDS Naturals, Sequences, FiniteSets

VARIABLES
  platform,      \* platform.system()
  onPath,        \* the executables shutil.which finds on the ambient PATH
  bundled,       \* the executables present under /opt/anaconda3
  fs,            \* the data files that exist (absolute paths)
  op,            \* the operation being executed, "none" between calls
  pc,            \* where the operation stands
  child,         \* the child process of the pending subprocess.run
  loc,           \* the local variables of fastqc()
  raised,        \* the message of the exception fastqc() ended with, "" if none
  returned,      \* the value fastqc() returned
  result,        \* the dict of install_fastqc() / is_fastqc_installed()
  spawns,        \* the subprocess.run calls of the current operation, in order
  installInvoked,\* whether install_fastqc() ran during the current operation
  calls          \* the number of operations completed

vars == <<platform, onPath, bundled, fs, op, pc, child, loc, raised, returned,
          result, spawns, installInvoked, calls>>

world == <<platform, onPath, bundled, fs>>

\* The number of operations one behaviour performs.
MaxCalls == 2

----------------------------------------------------------------------------
(* Paths and names *)

NoPath == [dir |-> "None", name |-> <<>>]

CWD == "cwd"
SearchDirs == <<"Downloads", "Desktop", "Documents", CWD>>

\* The directory of the ambient PATH and the ambient PATH itself.
PathDir == "/usr/bin"
AmbientPATH == <<PathDir>>

CondaFastqc == [dir |-> "/opt/anaconda3/bin", name |-> <<"fastqc">>]
CondaJava == [dir |-> "/opt/anaconda3/lib/jvm/bin", name |-> <<"java">>]

ExtTokens == {".fastq", ".fq", ".gz", ".html"}

\* The files that may exist when the program starts.
InputFiles ==
  { [dir |-> CWD, name |-> <<"reads", ".fastq">>],
    [dir |-> "Downloads", name |-> <<"reads", "_R1", ".fastq", ".gz">>],
    [dir |-> "data", name |-> <<"s", ".fastq">>] }

\* The values a caller passes as fastq_path: full paths and bare names.
InputArgs ==
  { [dir |-> "data", name |-> <<"s", ".fastq">>],
    [dir |-> "", name |-> <<"reads", ".fastq">>],
    [dir |-> "", name |-> <<"reads">>],
    [dir |-> "", name |-> <<>>] }

\* What a child writes to stdout or stderr.
Outputs == {"", "msg\n"}

\* os.path.abspath: a relative path is relative to the working directory.
Abs(p) == IF p.dir = "" THEN [p EXCEPT !.dir = CWD] ELSE p

\* shutil.which(name)
which(name) ==
  IF name \in onPath THEN [dir |-> PathDir, name |-> <<name>>] ELSE NoPath

\* os.path.exists(p)
exists(p) ==
  \/ Abs(p) \in fs
  \/ p = CondaFastqc /\ "fastqc" \in bundled
  \/ p = CondaJava /\ "java" \in bundled
  \/ p # NoPath /\ p.dir = PathDir /\ Len(p.name) = 1 /\ p.name[1] \in onPath

\* os.path.dirname(p)
dirname(p) == p.dir

\* os.path.splitext(os.path.basename(p))[0]: the name without its last extension.
splitext0(p) ==
  LET n == p.name IN
  IF Len(n) > 1 /\ n[Len(n)] \in ExtTokens THEN SubSeq(n, 1, Len(n) - 1) ELSE n

\* str.strip() of a child's output
strip(s) == IF s = "msg\n" THEN "msg" ELSE s

----------------------------------------------------------------------------
(* find_fastq_files: glob and sorted *)

\* Whether sub occurs in n as a run of consecutive tokens ("*sub*" matches n).
Contains(n, sub) ==
  \E i \in 0..Len(n) :
     i + Len(sub) <= Len(n) /\ SubSeq(n, i + 1, i + Len(sub)) = sub

EndsWith(n, suf) ==
  Len(suf) <= Len(n) /\ SubSeq(n, Len(n) - Len(suf) + 1, Len(n)) = suf

FastqSuffixes ==
  { <<".fastq">>, <<".fq">>, <<".fastq", ".gz">>, <<".fq", ".gz">> }

\* The union of glob.glob over the patterns built for one directory.
GlobDir(directory, filename) ==
  IF filename.name # <<>>
  THEN IF filename.dir # ""
       THEN \* os.path.join(directory, <absolute>) is the absolute path itself
            { f \in fs : f = filename }
       ELSE { f \in fs : f.dir = directory /\ Contains(f.name, filename.name) }
  ELSE { f \in fs : f.dir = directory /\ \E s \in FastqSuffixes : EndsWith(f.name, s) }

DirRank(d) ==
  CASE d = "Desktop" -> 1 [] d = "Documents" -> 2 [] d = "Downloads" -> 3
    [] d = CWD -> 4 [] OTHER -> 5

TokRank(t) ==
  CASE t = ".fastq" -> 1 [] t = ".fq" -> 2 [] t = ".gz" -> 3 [] t = ".html" -> 4
    [] t = "_R1" -> 5 [] t = "_fastqc" -> 6 [] t = "reads" -> 7 [] OTHER -> 8

RECURSIVE NameLess(_, _)
NameLess(a, b) ==
  IF a = <<>> THEN b # <<>>
  ELSE IF b = <<>> THEN FALSE
  ELSE IF TokRank(Head(a)) # TokRank(Head(b)) THEN TokRank(Head(a)) < TokRank(Head(b))
  ELSE NameLess(Tail(a), Tail(b))

\* The order of sorted() on the path strings.
PathLess(a, b) ==
  \/ DirRank(a.dir) < DirRank(b.dir)
  \/ DirRank(a.dir) = DirRank(b.dir) /\ NameLess(a.name, b.name)

RECURSIVE sorted(_)
sorted(S) ==
  IF S = {} THEN <<>>
  ELSE LET m == CHOOSE x \in S : \A y \in S \ {x} : PathLess(x, y)
       IN <<m>> \o sorted(S \ {m})

find_fastq_files(filename) ==
  sorted(UNION { GlobDir(SearchDirs[i], filename) : i \in 1..Len(SearchDirs) })

----------------------------------------------------------------------------
(* fastqc(): the steps before subprocess.run *)

MsgInputNotFound == "Could not find FASTQ file"
MsgToolNotFound == "FastQC not found. Please install FastQC."
MsgToolNotAt == "FastQC not found at path. Please check your installation."
MsgJavaNotFound == "Java not found. Please install Java (JRE) to run FastQC."
MsgNoReport == "FastQC failed to create report"
MsgSpawnFailed == "OSError"

\* Lines 54-63: the input path, searched for when it does not exist.
ResolveInput(fastq_path, search_if_not_found) ==
  LET existed == exists(fastq_path)
      found_files == find_fastq_files(fastq_path)
  IN IF ~existed /\ search_if_not_found
     THEN IF found_files = <<>>
          THEN [raised |-> MsgInputNotFound, fastq_path |-> fastq_path,
                existed |-> existed, found_files |-> found_files]
          ELSE [raised |-> "", fastq_path |-> found_files[1],
                existed |-> existed, found_files |-> found_files]
     ELSE [raised |-> "", fastq_path |-> fastq_path,
           existed |-> existed, found_files |-> <<>>]

\* Lines 65-75: the FastQC executable, on the PATH or at the conda location.
LocateFastqc ==
  LET w == which("fastqc")
      fastqc_path == IF w # NoPath THEN w
                     ELSE IF exists(CondaFastqc) THEN CondaFastqc ELSE NoPath
  IN IF fastqc_path = NoPath
     THEN [raised |-> MsgToolNotFound, fastqc_path |-> NoPath]
     ELSE IF ~exists(fastqc_path)
     THEN [raised |-> MsgToolNotAt, fastqc_path |-> fastqc_path]
     ELSE [raised |-> "", fastqc_path |-> fastqc_path]

\* ResolveJava without the final raise: a missing runtime falls through as "java".
ResolveJava_NoRaise ==
  IF exists(CondaJava)
  THEN [raised |-> "", java_executable |-> CondaJava,
        java_dir |-> "/opt/anaconda3/lib/jvm/bin",
        java_home |-> "/opt/anaconda3/lib/jvm"]
  ELSE [raised |-> "", java_executable |-> which("java"),
        java_dir |-> dirname(which("java")), java_home |-> dirname(which("java"))]

\* ResolveJava with the two locations probed in the other order.
ResolveJava_AmbientFirst ==
  LET java_executable == which("java") IN
  IF java_executable # NoPath /\ exists(java_executable)
  THEN [raised |-> "", java_executable |-> java_executable,
        java_dir |-> dirname(java_executable),
        java_home |-> dirname(java_executable)]
  ELSE IF exists(CondaJava)
  THEN [raised |-> "", java_executable |-> CondaJava,
        java_dir |-> "/opt/anaconda3/lib/jvm/bin",
        java_home |-> "/opt/anaconda3/lib/jvm"]
  ELSE [raised |-> MsgJavaNotFound, java_executable |-> java_executable,
        java_dir |-> "", java_home |-> ""]

\* Lines 81-93: the Java runtime, the conda one first, then the one on the PATH.
ResolveJava ==
  IF exists(CondaJava)
  THEN [raised |-> "", java_executable |-> CondaJava,
        java_dir |-> "/opt/anaconda3/lib/jvm/bin",
        java_home |-> "/opt/anaconda3/lib/jvm"]
  ELSE LET java_executable == which("java") IN
       IF java_executable # NoPath /\ exists(java_executable)
       THEN [raised |-> "", java_executable |-> java_executable,
             java_dir |-> dirname(java_executable),
             java_home |-> dirname(java_executable)]
       ELSE [raised |-> MsgJavaNotFound, java_executable |-> java_executable,
             java_dir |-> "", java_home |-> ""]

\* Lines 79, 95-96: the environment handed to the child.
BuildEnv(java) ==
  [JAVA_HOME |-> java.java_home, PATH |-> <<java.java_dir>> \o AmbientPATH]

\* Lines 100-101: the report the run is expected to leave.
ReportPath(fastq_path) ==
  [dir |-> dirname(fastq_path), name |-> splitext0(fastq_path) \o <<"_fastqc", ".html">>]

\* ErrorMsg without the fallback text.
ErrorMsg_Raw(stderr) == stderr

\* Line 103: the diagnostic of a run that left no report.
ErrorMsg(stderr) == IF stderr # "" THEN stderr ELSE "Unknown error"

\* Verify that also fails a run whose exit status is not zero.
Verify_ExitStatus(report_path, proc) ==
  IF proc.returncode # 0 \/ ~exists(report_path)
  THEN [raised |-> MsgNoReport, diag |-> ErrorMsg(proc.stderr), returned |-> NoPath]
  ELSE [raised |-> "", diag |-> "", returned |-> report_path]

\* Lines 99-105: the outcome of a run, from the report's existence alone.
Verify(report_path, proc) ==
  IF ~exists(report_path)
  THEN [raised |-> MsgNoReport, diag |-> ErrorMsg(proc.stderr), returned |-> NoPath]
  ELSE [raised |-> "", diag |-> "", returned |-> report_path]

NoLoc == [arg |-> NoPath, search |-> FALSE, existed |-> FALSE, found_files |-> <<>>,
          fastq_path |-> NoPath, fastqc_path |-> NoPath, reachedJava |-> FALSE,
          java_executable |-> NoPath, java_dir |-> "", java_home |-> "",
          env |-> [JAVA_HOME |-> "", PATH |-> AmbientPATH],
          report_path |-> NoPath, diag |-> ""]

----------------------------------------------------------------------------
(* Child processes *)

NoChild == [cmd |-> "none", state |-> "none", input |-> NoPath,
            returncode |-> 0, stdout |-> "", stderr |-> ""]

\* subprocess.run(cmd): the child starts, or the call raises (the executable
\* cannot be started) and no process exists.
Started(cmd, input, ok) ==
  [cmd |-> cmd, state |-> IF ok THEN "running" ELSE "raised", input |-> input,
   returncode |-> 0, stdout |-> "", stderr |-> ""]

SubprocessRun(cmd, input, ok, at) ==
  /\ child' = Started(cmd, input, ok)
  /\ spawns' = Append(spawns, [cmd |-> cmd, started |-> ok])
  /\ pc' = at

\* The report FastQC itself names: the input's name without .gz and .fastq/.fq.
ToolReport(input) ==
  LET n == input.name
      n1 == IF Len(n) > 1 /\ n[Len(n)] = ".gz" THEN SubSeq(n, 1, Len(n) - 1) ELSE n
      n2 == IF Len(n1) > 1 /\ n1[Len(n1)] \in {".fastq", ".fq"}
            THEN SubSeq(n1, 1, Len(n1) - 1) ELSE n1
  IN Abs([dir |-> input.dir, name |-> n2 \o <<"_fastqc", ".html">>])

\* What a finished child may have left behind.
ChildEffect(c) ==
  CASE c.cmd = "fastqc" ->
         /\ fs' \in {fs, fs \cup {ToolReport(c.input)}, fs \cup {Abs(ReportPath(c.input))}}
         /\ onPath' = onPath
    [] c.cmd = "brew install openjdk" ->
         /\ onPath' \in {onPath, onPath \cup {"java"}}
         /\ fs' = fs
    [] c.cmd = "brew install fastqc" ->
         /\ onPath' \in {onPath, onPath \cup {"fastqc"}, onPath \cup {"fastqc", "java"}}
         /\ fs' = fs
    [] OTHER -> fs' = fs /\ onPath' = onPath

\* The running child exits, with any status and any output.
ChildExit ==
  /\ child.state = "running"
  /\ \E rc \in {0, 1}, out \in Outputs, err \in Outputs :
       child' = [child EXCEPT !.state = "exited", !.returncode = rc,
                              !.stdout = out, !.stderr = err]
  /\ ChildEffect(child)
  /\ UNCHANGED <<platform, bundled, op, pc, loc, raised, returned, result,
                 spawns, installInvoked, calls>>

----------------------------------------------------------------------------
(* fastqc() *)

Raise(msg) ==
  /\ raised' = msg
  /\ returned' = NoPath
  /\ pc' = "done"
  /\ child' = NoChild
  /\ UNCHANGED spawns

\* fastqc(fastq_path, search_if_not_found), lines 47-98.
CallFastqc ==
  /\ pc = "idle" /\ calls < MaxCalls
  /\ \E arg \in InputArgs \cup InputFiles, search \in BOOLEAN, ok \in BOOLEAN :
       LET in == ResolveInput(arg, search)
           tool == LocateFastqc
           java == ResolveJava
           l0 == [NoLoc EXCEPT !.arg = arg, !.search = search,
                               !.existed = in.existed, !.found_files = in.found_files,
                               !.fastq_path = in.fastq_path]
           l1 == [l0 EXCEPT !.fastqc_path = tool.fastqc_path]
           l2 == [l1 EXCEPT !.reachedJava = TRUE,
                            !.java_executable = java.java_executable,
                            !.java_dir = java.java_dir, !.java_home = java.java_home]
       IN /\ op' = "fastqc"
          /\ installInvoked' = FALSE
          /\ IF in.raised # "" THEN loc' = l0 /\ Raise(in.raised)
             ELSE IF tool.raised # "" THEN loc' = l1 /\ Raise(tool.raised)
             ELSE IF java.raised # "" THEN loc' = l2 /\ Raise(java.raised)
             ELSE /\ loc' = [l2 EXCEPT !.env = BuildEnv(java),
                                       !.report_path = ReportPath(in.fastq_path)]
                  /\ SubprocessRun("fastqc", in.fastq_path, ok, "run_tool")
                  /\ UNCHANGED <<raised, returned>>
  /\ UNCHANGED <<world, result, calls>>

\* fastqc() after subprocess.run, lines 98-105.
FastqcAfterRun ==
  /\ pc = "run_tool" /\ child.state \in {"exited", "raised"}
  /\ IF child.state = "raised"
     THEN Raise(MsgSpawnFailed) /\ UNCHANGED loc
     ELSE LET v == Verify(loc.report_path, child) IN
          /\ raised' = v.raised
          /\ returned' = v.returned
          /\ loc' = [loc EXCEPT !.diag = v.diag]
          /\ pc' = "done"
          /\ UNCHANGED <<child, spawns>>
  /\ UNCHANGED <<world, op, result, installInvoked, calls>>

----------------------------------------------------------------------------
(* install_fastqc() *)

None == "None"
MsgJavaInstallFailed == "Failed to install Java"
MsgFastqcInstallFailed == "Failed to install FastQC"
MsgJavaUnsupported ==
  "Automatic Java installation is only supported on macOS (Darwin) with Homebrew. Please install Java manually."
MsgFastqcUnsupported ==
  "Automatic FastQC installation is only supported on macOS (Darwin) with Homebrew. Please install FastQC manually."

\* Lines 111-119. An output that is None is <<>>.
NewInstallResult ==
  [java_installed |-> FALSE, java_install_attempted |-> FALSE,
   java_install_output |-> <<>>,
   fastqc_installed |-> FALSE, fastqc_install_attempted |-> FALSE,
   fastqc_install_output |-> <<>>, error |-> None]

\* JavaProbe that records an attempt whatever the probe found.
JavaProbe_AlwaysAttempt(r, java_path) ==
  [r EXCEPT !.java_installed = (java_path # NoPath), !.java_install_attempted = TRUE]

\* Lines 121-125: the dict after the first probe of java.
JavaProbe(r, java_path) ==
  IF java_path # NoPath THEN [r EXCEPT !.java_installed = TRUE]
  ELSE [r EXCEPT !.java_install_attempted = TRUE]

\* Lines 129-136: the dict after the brew run for java.
JavaInstalled(r, proc, java_path) ==
  IF proc.state = "raised" THEN [r EXCEPT !.error = MsgJavaInstallFailed]
  ELSE [r EXCEPT !.java_install_output = <<proc.stdout, "\n", proc.stderr>>,
                 !.java_installed = (java_path # NoPath)]

\* Lines 141-145: the dict after the first probe of fastqc.
FastqcProbe(r, fastqc_path) ==
  IF fastqc_path # NoPath THEN [r EXCEPT !.fastqc_installed = TRUE]
  ELSE [r EXCEPT !.fastqc_install_attempted = TRUE]

\* Lines 149-156: the dict after the brew run for fastqc.
FastqcInstalled(r, proc, fastqc_path) ==
  IF proc.state = "raised" THEN [r EXCEPT !.error = MsgFastqcInstallFailed]
  ELSE [r EXCEPT !.fastqc_install_output = <<proc.stdout, "\n", proc.stderr>>,
                 !.fastqc_installed = (fastqc_path # NoPath)]

\* Lines 127, 147: the installer is run on this platform only.
InstallerSupported == platform = "Darwin"

NoInstallLoc == [java_path |-> NoPath, fastqc_path |-> NoPath, fastqcProbed |-> FALSE]

Finish(r) ==
  /\ result' = r
  /\ pc' = "done"
  /\ child' = NoChild
  /\ UNCHANGED spawns

\* CheckFastqc that returns at once when java is still not installed.
CheckFastqc_StopOnJavaFailure(r, l, ok) ==
  LET fastqc_path == which("fastqc")
      r1 == FastqcProbe(r, fastqc_path)
  IN IF ~r.java_installed
     THEN loc' = l /\ Finish(r)
     ELSE /\ loc' = [l EXCEPT !.fastqc_path = fastqc_path, !.fastqcProbed = TRUE]
          /\ IF fastqc_path # NoPath THEN Finish(r1)
             ELSE IF InstallerSupported
             THEN result' = r1 /\ SubprocessRun("brew install fastqc", NoPath, ok, "install_fastqc")
             ELSE Finish([r1 EXCEPT !.error = MsgFastqcUnsupported])

\* Lines 140-159, up to the brew run for fastqc.
CheckFastqc(r, l, ok) ==
  LET fastqc_path == which("fastqc")
      r1 == FastqcProbe(r, fastqc_path)
  IN /\ loc' = [l EXCEPT !.fastqc_path = fastqc_path, !.fastqcProbed = TRUE]
     /\ IF fastqc_path # NoPath THEN Finish(r1)
        ELSE IF InstallerSupported
        THEN result' = r1 /\ SubprocessRun("brew install fastqc", NoPath, ok, "install_fastqc")
        ELSE Finish([r1 EXCEPT !.error = MsgFastqcUnsupported])

\* install_fastqc(), lines 107-129 (and on to line 149 when java is found).
CallInstall ==
  /\ pc = "idle" /\ calls < MaxCalls
  /\ op' = "install_fastqc"
  /\ installInvoked' = TRUE
  /\ \E ok \in BOOLEAN :
       LET java_path == which("java")
           r1 == JavaProbe(NewInstallResult, java_path)
           l1 == [NoInstallLoc EXCEPT !.java_path = java_path]
       IN IF java_path # NoPath THEN CheckFastqc(r1, l1, ok)
          ELSE /\ loc' = l1
               /\ IF InstallerSupported
                  THEN result' = r1 /\ SubprocessRun("brew install openjdk", NoPath, ok, "install_java")
                  ELSE Finish([r1 EXCEPT !.error = MsgJavaUnsupported])
  /\ UNCHANGED <<world, raised, returned, calls>>

\* install_fastqc() after the brew run for java, lines 129-149.
InstallAfterJava ==
  /\ pc = "install_java" /\ child.state \in {"exited", "raised"}
  /\ \E ok \in BOOLEAN :
       CheckFastqc(JavaInstalled(result, child, which("java")), loc, ok)
  /\ UNCHANGED <<world, op, raised, returned, installInvoked, calls>>

\* install_fastqc() after the brew run for fastqc, lines 149-159.
InstallAfterFastqc ==
  /\ pc = "install_fastqc" /\ child.state \in {"exited", "raised"}
  /\ result' = FastqcInstalled(result, child, which("fastqc"))
  /\ pc' = "done"
  /\ UNCHANGED <<world, op, child, loc, raised, returned, spawns, installInvoked, calls>>

----------------------------------------------------------------------------
(* is_fastqc_installed() *)

MsgVersionError == "Error getting version"
MsgWhichError == "Error running which"

\* Lines 165-174.
NewStatus ==
  [fastqc_installed |-> FALSE, fastqc_path |-> NoPath, fastqc_version |-> None,
   which_output |-> None, java_installed |-> FALSE, java_path |-> NoPath,
   java_version |-> None, error |-> None]

\* a.strip() or b.strip()
StripOr(a, b) == IF strip(a) # "" THEN strip(a) ELSE strip(b)

\* is_fastqc_installed(), lines 161-188.
CallIsInstalled ==
  /\ pc = "idle" /\ calls < MaxCalls
  /\ op' = "is_fastqc_installed"
  /\ installInvoked' = FALSE
  /\ \E ok \in BOOLEAN :
       LET fastqc_path == which("fastqc")
           r1 == [NewStatus EXCEPT !.fastqc_path = fastqc_path]
       IN IF fastqc_path # NoPath
          THEN /\ result' = [r1 EXCEPT !.fastqc_installed = TRUE]
               /\ SubprocessRun("fastqc --version", NoPath, ok, "ver_fastqc")
          ELSE /\ result' = r1
               /\ SubprocessRun("which fastqc", NoPath, ok, "which")
  /\ UNCHANGED <<world, loc, raised, returned, calls>>

\* Lines 182-188: after the version query of fastqc.
IsInstalledAfterVersion ==
  /\ pc = "ver_fastqc" /\ child.state \in {"exited", "raised"}
  /\ result' = [result EXCEPT !.fastqc_version =
                  IF child.state = "raised" THEN MsgVersionError
                  ELSE StripOr(child.stdout, child.stderr)]
  /\ \E ok \in BOOLEAN : SubprocessRun("which fastqc", NoPath, ok, "which")
  /\ UNCHANGED <<world, op, loc, raised, returned, installInvoked, calls>>

\* Lines 188-198: after `which fastqc`.
IsInstalledAfterWhich ==
  /\ pc = "which" /\ child.state \in {"exited", "raised"}
  /\ \E ok \in BOOLEAN :
       LET r1 == [result EXCEPT !.which_output =
                    IF child.state = "raised" THEN MsgWhichError
                    ELSE StripOr(child.stdout, child.stderr)]
           java_path == which("java")
           r2 == [r1 EXCEPT !.java_path = java_path]
       IN IF java_path # NoPath
          THEN /\ result' = [r2 EXCEPT !.java_installed = TRUE]
               /\ SubprocessRun("java -version", NoPath, ok, "ver_java")
          ELSE Finish(r2)
  /\ UNCHANGED <<world, op, loc, raised, returned, installInvoked, calls>>

\* Lines 198-205: after the version query of java.
IsInstalledAfterJava ==
  /\ pc = "ver_java" /\ child.state \in {"exited", "raised"}
  /\ result' = [result EXCEPT !.java_version =
                  IF child.state = "raised" THEN MsgVersionError
                  ELSE StripOr(child.stderr, child.stdout)]
  /\ pc' = "done"
  /\ UNCHANGED <<world, op, child, loc, raised, returned, spawns, installInvoked, calls>>

----------------------------------------------------------------------------
(* The specification *)

\* The operation's outcome is handed to the caller; the engine keeps nothing.
Return ==
  /\ pc = "done"
  /\ pc' = "idle"
  /\ op' = "none"
  /\ child' = NoChild
  /\ loc' = NoLoc
  /\ raised' = ""
  /\ returned' = NoPath
  /\ result' = None
  /\ spawns' = <<>>
  /\ installInvoked' = FALSE
  /\ calls' = calls + 1
  /\ UNCHANGED world

Init ==
  /\ platform \in {"Darwin", "Linux"}
  /\ onPath \in SUBSET {"fastqc", "java"}
  /\ bundled \in SUBSET {"fastqc", "java"}
  /\ fs \in SUBSET InputFiles
  /\ op = "none"
  /\ pc = "idle"
  /\ child = NoChild
  /\ loc = NoLoc
  /\ raised = ""
  /\ returned = NoPath
  /\ result = None
  /\ spawns = <<>>
  /\ installInvoked = FALSE
  /\ calls = 0

Program ==
  \/ CallFastqc
  \/ FastqcAfterRun
  \/ CallInstall
  \/ InstallAfterJava
  \/ InstallAfterFastqc
  \/ CallIsInstalled
  \/ IsInstalledAfterVersion
  \/ IsInstalledAfterWhich
  \/ IsInstalledAfterJava
  \/ Return

Next ==
  \/ Program
  \/ ChildExit

Spec == Init /\ [][Next]_vars

\* The interpreter always takes its next step; nothing makes a child exit.
FairSpec == Spec /\ WF_vars(Program)

----------------------------------------------------------------------------
(* Properties *)

InFastqc == op = "fastqc"
InInstall == op = "install_fastqc"

\* subprocess.run was called for cmd in the current operation.
Spawned(cmd) == \E i \in 1..Len(spawns) : spawns[i].cmd = cmd

\* A child process was started in the current operation.
ProcessStarted == \E i \in 1..Len(spawns) : spawns[i].started

\* The input of the current fastqc() call resolved to an existing file.
InputResolves == loc.existed \/ (loc.search /\ loc.found_files # <<>>)

\* A Java runtime exists at the bundled location or on the ambient PATH.
JavaResolvable == "java" \in bundled \/ "java" \in onPath

AmbientJava == [dir |-> PathDir, name |-> <<"java">>]

\* C1: a fastqc() call whose input does not resolve to an existing file (the
\* literal path does not exist and, when searching is enabled, the search
\* finds nothing) ends with the not-found error and never calls
\* subprocess.run, for both values of search_if_not_found.
C1_NotFoundNoSpawn ==
  (InFastqc /\ ~InputResolves) =>
     /\ spawns = <<>>
     /\ pc = "done"
     /\ raised = MsgInputNotFound

\* C2: when fastqc() ran the tool and the expected report exists afterwards,
\* the call returns the report path, whatever the child's exit status.
C2_ArtifactDecidesSuccess ==
  (InFastqc /\ pc = "done" /\ child.state = "exited" /\ exists(loc.report_path)) =>
     /\ raised = ""
     /\ returned = loc.report_path

\* C2 witness: a run that exited non-zero, left the report, and returned it.
C2_Witness ==
  /\ InFastqc /\ pc = "done" /\ child.state = "exited"
  /\ child.returncode = 1
  /\ exists(loc.report_path)
  /\ returned = loc.report_path

\* C3: when fastqc() ran the tool and the expected report is absent afterwards,
\* the call fails with the no-report error even when the child exited with
\* status zero, and its diagnostic is the captured stderr when that is not
\* empty and "Unknown error" when it is.
C3_MissingArtifactFails ==
  (InFastqc /\ pc = "done" /\ child.state = "exited" /\ ~exists(loc.report_path)) =>
     /\ raised = MsgNoReport
     /\ returned = NoPath
     /\ child.stderr # "" => loc.diag = child.stderr
     /\ child.stderr = "" => loc.diag = "Unknown error"

\* C3 witness: a run that exited zero with an empty stderr and left no report.
C3_Witness ==
  /\ InFastqc /\ pc = "done" /\ child.state = "exited"
  /\ child.returncode = 0 /\ child.stderr = ""
  /\ ~exists(loc.report_path)
  /\ raised = MsgNoReport /\ loc.diag = "Unknown error"

C5_InstallBeforeGivingUp ==
  (InFastqc /\ pc = "done" /\ raised = MsgToolNotFound) => installInvoked

\* C6: in install_fastqc(), a component found on the PATH when probed gets no
\* installer run and its install_attempted flag stays false; with both found,
\* subprocess.run is never called.
C6_FoundMeansNoInstall ==
  InInstall =>
     /\ loc.java_path # NoPath =>
           ~Spawned("brew install openjdk") /\ ~result.java_install_attempted
     /\ (loc.fastqcProbed /\ loc.fastqc_path # NoPath) =>
           ~Spawned("brew install fastqc") /\ ~result.fastqc_install_attempted
     /\ (loc.java_path # NoPath /\ loc.fastqcProbed /\ loc.fastqc_path # NoPath) =>
           spawns = <<>>

\* C6 witness: install_fastqc() returned with both components found.
C6_Witness ==
  /\ InInstall /\ pc = "done"
  /\ loc.java_path # NoPath /\ loc.fastqcProbed /\ loc.fastqc_path # NoPath
  /\ result.java_installed /\ result.fastqc_installed
  /\ spawns = <<>>

\* C7: off Darwin, install_fastqc() never calls subprocess.run, never records
\* an installation as attempted, and returns the unsupported-platform error
\* as soon as a component is missing.
C7_NoAttemptOffPlatform ==
  (InInstall /\ platform # "Darwin") =>
     /\ spawns = <<>>
     /\ ~result.java_install_attempted
     /\ ~result.fastqc_install_attempted
     /\ pc = "done"
     /\ (loc.java_path = NoPath) => result.error = MsgJavaUnsupported
     /\ (loc.fastqcProbed /\ loc.fastqc_path = NoPath) =>
           result.error = MsgFastqcUnsupported

\* C8: every child process is bounded by a timeout: a child that is running
\* is eventually no longer waited for (it is terminated after the timeout
\* and the operation returns).
C8_ChildBounded == (child.state = "running") ~> (pc = "done")

\* C9: every install_fastqc() result that reports a failure (java_installed
\* or fastqc_installed false) carries a diagnostic in its error field.
C9_FailureHasDiagnostic ==
  (InInstall /\ pc = "done"
     /\ (~result.java_installed \/ ~result.fastqc_installed)) =>
        result.error # None

\* C10: fastqc() selects the bundled Java runtime whenever it exists, whatever
\* is on the ambient PATH, and the ambient one only when the bundled one is
\* absent.
C10_BundledRuntimePreferred ==
  (InFastqc /\ loc.reachedJava) =>
     /\ exists(CondaJava) =>
           /\ loc.java_executable = CondaJava
           /\ loc.java_dir = dirname(CondaJava)
     /\ loc.java_executable = AmbientJava => ~exists(CondaJava)
     /\ (~exists(CondaJava) /\ "java" \in onPath) => loc.java_executable = AmbientJava

\* C10 witness: both runtimes exist, the bundled one is selected and the tool ran.
C10_Witness ==
  /\ InFastqc /\ pc = "run_tool" /\ child.state = "running"
  /\ exists(CondaJava) /\ "java" \in onPath
  /\ loc.java_executable = CondaJava
  /\ loc.env.PATH[1] = dirname(CondaJava)

\* The installation root of a runtime whose executable lies in bin_dir: the
\* directory above it.
InstallRoot(bin_dir) ==
  CASE bin_dir = "/opt/anaconda3/lib/jvm/bin" -> "/opt/anaconda3/lib/jvm"
    [] bin_dir = "/usr/bin" -> "/usr"
    [] OTHER -> "None"

\* C11: whichever runtime fastqc() resolved, the environment handed to the
\* child has the directory of the runtime executable first on the PATH and
\* JAVA_HOME set to the runtime's installation root (the directory above the
\* executable's directory), in the bundled branch and the ambient one alike.
C11_EnvFromRuntime ==
  (InFastqc /\ Spawned("fastqc")) =>
     /\ loc.env.PATH = <<dirname(loc.java_executable)>> \o AmbientPATH
     /\ loc.env.JAVA_HOME = InstallRoot(dirname(loc.java_executable))

\* The java installer of this install_fastqc() call was run and left java
\* not installed (it raised, or it completed and java is still not found).
JavaAttemptFailed ==
  /\ Spawned("brew install openjdk")
  /\ pc # "install_java"
  /\ ~result.java_installed

\* C12: in an install_fastqc() call on Darwin the attempts are sequential
\* (fastqc is neither probed nor installed before the java attempt is over,
\* and the java installer comes first in the order of the runs), and a failed
\* java attempt never prevents the fastqc probe and, when fastqc is missing,
\* its installation attempt; the call returns only after that.
C12_SequentialAndContinues ==
  (InInstall /\ platform = "Darwin") =>
     /\ pc = "install_java" =>
           /\ ~loc.fastqcProbed
           /\ spawns = <<[cmd |-> "brew install openjdk", started |-> child.state # "raised"]>>
     /\ (Spawned("brew install openjdk") /\ Spawned("brew install fastqc")) =>
           /\ Len(spawns) = 2
           /\ spawns[1].cmd = "brew install openjdk"
           /\ spawns[2].cmd = "brew install fastqc"
     /\ pc # "install_java" => loc.fastqcProbed
     /\ (loc.fastqcProbed /\ loc.fastqc_path = NoPath) =>
           /\ result.fastqc_install_attempted
           /\ Spawned("brew install fastqc")
     /\ JavaAttemptFailed =>
           /\ loc.fastqcProbed
           /\ loc.fastqc_path = NoPath => Spawned("brew install fastqc")

\* C12 witness: the java installer completed with java still not found, and
\* the fastqc installer was then run and installed fastqc.
C12_Witness ==
  /\ InInstall /\ platform = "Darwin" /\ pc = "done"
  /\ spawns = <<[cmd |-> "brew install openjdk", started |-> TRUE],
                [cmd |-> "brew install fastqc", started |-> TRUE]>>
  /\ result.java_install_output # <<>>
  /\ ~result.java_installed
  /\ result.fastqc_installed

\* C13: in every result install_fastqc() returns, fastqc_installed is true
\* exactly when fastqc is on the PATH (nothing changes the PATH between the
\* function's last probe and its return).
C13_FlagMatchesPath ==
  (InInstall /\ pc = "done") => (result.fastqc_installed <=> "fastqc" \in onPath)

====
